---- MODULE Spec2Model ----
(***************************************************************************)
(* The post router of precios-riogrande (src/src/server/api/routers/       *)
(* post.ts): publish / create / deleteOwnPost / getDailyBestOffers over a  *)
(* relational store (posts, colaborations) and an S3 bucket.  Every await  *)
(* of a handler (findFirst, headObject, copyObject, deleteObject,          *)
(* post.create, ...) is one atomic step, so handlers of different requests *)
(* interleave between their awaits.                                        *)
(*                                                                         *)
(* Prices are integers in hundredths (10.00 is 1000, 10.01 is 1001): the   *)
(* inputs are decimal numbers of at most two places, which                 *)
(* new Prisma.Decimal(input.price) stores exactly.                         *)
(* Time is an integer count of ticks since a midnight of the UTC-3 zone.   *)
(***************************************************************************)
EXTENDS Integers, Sequences, FiniteSets, TLC

\* ------------------------------------------------------------------ bounds
\* post rows ever created (ids 1..MaxPosts)
MaxPosts == 2
\* colaboration rows ever created
MaxColabs == 1
\* the last tick of the clock
MaxTime == 2

\* ticks per calendar day of the UTC-3 zone (startOf("day"))
DayLen == 2

\* the request slots: two handlers can be in flight at once
Req == {"r1", "r2"}

\* ctx.session.user.id of the protected procedures
Users == {"u1", "u2"}
\* input.productId
Products == {"p1", "p2"}
\* input.commerceId
Commerces == {"c1", "c2"}
\* input.price, positive
Prices == {1000, 1001}
\* the keys getImageSignedUrl hands out (randomUUID), later sent as input.imageKey
ImageKeys == {"a"}

IMAGE_PREFIX == "pre-"
\* env.S3_BUCKET_URL
S3_BUCKET_URL == "https://bucket"

VARIABLES
  now,            \* the clock, in ticks
  posts,          \* the post table: a set of rows
  colaborations,  \* the colaboration table: a set of rows
  s3,             \* the keys of the objects in the bucket
  nextPostId,     \* the next fresh post id
  nextColabId,    \* the next fresh colaboration id
  pc,             \* pc[r]: the await request slot r stands at
  req,            \* req[r]: the procedure, its ctx and input, and its locals
  res,            \* res[r]: what the procedure returned or threw
  snap            \* auxiliary: the clock, tables and bucket as the request in
                  \* flight found them, valid while that request runs alone
                  \* (no other request, upload or expiry since it started)

vars == <<now, posts, colaborations, s3, nextPostId, nextColabId, pc, req, res, snap>>

\* ------------------------------------------------------------ pure helpers

\* IMAGE_PREFIX + imageKeyWithoutPrefix
TempKey(imageKey) == IMAGE_PREFIX \o imageKey

\* `${env.S3_BUCKET_URL}/${imageKeyWithoutPrefix}`
PublicUrl(imageKey) == S3_BUCKET_URL \o "/" \o imageKey

\* DateTime.now().setZone("UTC-3").startOf("day"), as an instant
StartOfDay(t) == (t \div DayLen) * DayLen

\* faulty variant: the where clause without the price
PublishWhereAnyPrice(p, dayStart, productId, commerceId, price) ==
  /\ p.publishDate >= dayStart
  /\ p.productId = productId
  /\ p.commerceId = commerceId

\* the where clause of publish's findFirst
PublishWhere(p, dayStart, productId, commerceId, price) ==
  /\ p.publishDate >= dayStart
  /\ p.productId = productId
  /\ p.commerceId = commerceId
  /\ p.price = price

\* the rows findFirst may return: no orderBy is given, so any matching row
FindFirst(table, dayStart, productId, commerceId, price) ==
  {p \in table : PublishWhere(p, dayStart, productId, commerceId, price)}

\* faulty variant: the author's own post is not recognised
IsOwnPostNever(p, user) == FALSE

\* existentPost.authorId === ctx.session.user.id
IsOwnPost(p, user) == p.authorId = user

\* faulty variant: no ownership check
IsNotAuthorNever(p, user) == FALSE

\* post.authorId !== user.id of deleteOwnPost
IsNotAuthor(p, user) == p.authorId # user

\* findUnique({ where: { id } })
FindUnique(table, id) == {p \in table : p.id = id}

\* the columns the store fills in on post.create: a fresh id, publishDate now()
PostDefaults(id, t) == [id |-> id, publishDate |-> t]

\* the data of post.create
PostData(productId, commerceId, imageUrl, price, user) ==
  [productId |-> productId, commerceId |-> commerceId, image |-> imageUrl,
   price |-> price, authorId |-> user]

NewPost(d, data) ==
  [id |-> d.id, publishDate |-> d.publishDate, productId |-> data.productId,
   commerceId |-> data.commerceId, image |-> data.image, price |-> data.price,
   authorId |-> data.authorId]

\* faulty variant: the colaboration is not connected to the found post
NewColaborationUnlinked(id, postId, user) == [id |-> id, postId |-> 0, userId |-> user]

\* the data of colaboration.create: post connect existentPost.id, user connect session user
NewColaboration(id, postId, user) == [id |-> id, postId |-> postId, userId |-> user]

\* a colaboration row always references an existing post: deleting the post
\* takes its colaborations with it
OnDeletePost(table, postId) == {c \in table : c.postId # postId}

\* ------------------------------------------------------- responses, locals

None == [kind |-> "none", code |-> "", message |-> "", id |-> 0, list |-> <<>>]
Void == [None EXCEPT !.kind = "void"]
Returned(kind, id) == [None EXCEPT !.kind = kind, !.id = id]
Feed(list) == [None EXCEPT !.kind = "feed", !.list = list]
\* throw new TRPCError({ code, message })
TRPCError(code, message) == [None EXCEPT !.kind = "error", !.code = code, !.message = message]
\* a rejection of s3.send or of the store, not caught by the handler
Rejected(what) == [None EXCEPT !.kind = "error", !.code = what]

ImageNotFound == TRPCError("BAD_REQUEST", "IMAGE_KEY_NOT_FOUND")
ImagePromotionFailed == TRPCError("INTERNAL_SERVER_ERROR", "IMAGE_VALIDATION_ERROR")
NotFound == TRPCError("NOT_FOUND", "")
Forbidden == TRPCError("FORBIDDEN", "No eres el autor de la publicacion")

Idle ==
  [op |-> "none", user |-> "", productId |-> "", commerceId |-> "", imageKey |-> "",
   price |-> 0, id |-> 0, dayStart |-> 0, existentPost |-> {},
   head |-> "none", copyOutput |-> "none", del |-> "none"]

NoSnap ==
  [valid |-> FALSE, now |-> 0, posts |-> {}, colaborations |-> {},
   s3 |-> {}]
Snapshot ==
  [valid |-> TRUE, now |-> now, posts |-> posts,
   colaborations |-> colaborations, s3 |-> s3]

AllIdle == \A r \in Req : pc[r] = "idle"

\* requests in flight that may still need a fresh post id
Creators == {r \in Req : pc[r] # "done" /\ req[r].op \in {"publish", "create"}}

\* ---------------------------------------------------------------- the S3 bucket

\* HeadObjectCommand on the temporary key: found, or a rejection (absent, or any failure)
HeadOutcomes(bucket, imageKey) ==
  IF TempKey(imageKey) \in bucket THEN {"ok", "rejected"} ELSE {"rejected"}

\* CopyObjectCommand: a CopyObjectResult, a response without one, or a rejection
CopyOutcomes(bucket, imageKey) ==
  IF TempKey(imageKey) \in bucket THEN {"confirmed", "unconfirmed", "rejected"}
  ELSE {"rejected"}

\* DeleteObjectCommand: done, or a rejection
DeleteOutcomes == {"ok", "rejected"}

\* ------------------------------------------------------------------- Init

Init ==
  /\ now = 0
  /\ posts = {}
  /\ colaborations = {}
  /\ s3 = {}
  /\ nextPostId = 1
  /\ nextColabId = 1
  /\ pc = [r \in Req |-> "idle"]
  /\ req = [r \in Req |-> Idle]
  /\ res = [r \in Req |-> None]
  /\ snap = NoSnap

Finish(r, response) ==
  /\ pc' = [pc EXCEPT ![r] = "done"]
  /\ res' = [res EXCEPT ![r] = response]

Goto(r, label) ==
  /\ pc' = [pc EXCEPT ![r] = label]
  /\ UNCHANGED res

Start(r, label, record) ==
  /\ pc[r] = "idle"
  /\ pc' = [pc EXCEPT ![r] = label]
  /\ req' = [req EXCEPT ![r] = record]
  /\ snap' = IF AllIdle THEN Snapshot ELSE NoSnap
  /\ UNCHANGED <<now, posts, colaborations, s3, nextPostId, nextColabId, res>>

\* ------------------------------------------------------------- the clock

Tick ==
  /\ now < MaxTime
  /\ now' = now + 1
  /\ UNCHANGED <<posts, colaborations, s3, nextPostId, nextColabId, pc, req, res, snap>>

\* --------------------------------------------------- the temporary objects

\* the client's PUT to the URL getImageSignedUrl signed for IMAGE_PREFIX + key
Upload(k) ==
  /\ TempKey(k) \notin s3
  /\ s3' = s3 \cup {TempKey(k)}
  /\ snap' = NoSnap
  /\ UNCHANGED <<now, posts, colaborations, nextPostId, nextColabId, pc, req, res>>

\* the bucket's "object deletion lifecycle" of the prefixed objects
LifecycleExpire(k) ==
  /\ TempKey(k) \in s3
  /\ s3' = s3 \ {TempKey(k)}
  /\ snap' = NoSnap
  /\ UNCHANGED <<now, posts, colaborations, nextPostId, nextColabId, pc, req, res>>

\* --------------------------------------------------------- validateS3image

\* faulty variant: the rejection of the HeadObjectCommand is not caught
AfterHeadNoCatch(r, out) ==
  IF out = "ok" THEN Goto(r, "copyObject") ELSE Finish(r, Rejected("HeadObject"))

\* .catch(() => { throw new TRPCError({ code: "BAD_REQUEST", ... }) })
AfterHead(r, out) ==
  IF out = "ok" THEN Goto(r, "copyObject") ELSE Finish(r, ImageNotFound)

HeadObject(r) ==
  /\ pc[r] = "headObject"
  /\ \E out \in HeadOutcomes(s3, req[r].imageKey) :
       /\ req' = [req EXCEPT ![r].head = out]
       /\ AfterHead(r, out)
  /\ UNCHANGED <<now, posts, colaborations, s3, nextPostId, nextColabId, snap>>

\* faulty variant: the CopyObjectResult is not looked at
CopyNeverChecked(out) == FALSE

\* !copyOutput.CopyObjectResult
CopyNotConfirmed(out) == out # "confirmed"

CopyObject(r) ==
  /\ pc[r] = "copyObject"
  /\ \E out \in CopyOutcomes(s3, req[r].imageKey) :
       /\ req' = [req EXCEPT ![r].copyOutput = out]
       /\ IF out = "rejected"
            THEN /\ Finish(r, Rejected("CopyObject"))
                 /\ UNCHANGED s3
            ELSE /\ IF out = "confirmed"
                      THEN s3' = s3 \cup {req[r].imageKey}
                      ELSE s3' \in {s3, s3 \cup {req[r].imageKey}}
                 /\ IF CopyNotConfirmed(out)
                      THEN Finish(r, ImagePromotionFailed)
                      ELSE Goto(r, "deleteObject")
  /\ UNCHANGED <<now, posts, colaborations, nextPostId, nextColabId, snap>>

\* faulty variant: the DeleteObjectCommand is not awaited (fire and forget)
AfterDeleteIgnored(r, out) == Goto(r, "post.create")

\* await s3.send(new DeleteObjectCommand(...)): a rejection is thrown on
AfterDelete(r, out) ==
  IF out = "rejected" THEN Finish(r, Rejected("DeleteObject")) ELSE Goto(r, "post.create")

DeleteObject(r) ==
  /\ pc[r] = "deleteObject"
  /\ \E out \in DeleteOutcomes :
       /\ req' = [req EXCEPT ![r].del = out]
       /\ s3' = IF out = "ok" THEN s3 \ {TempKey(req[r].imageKey)} ELSE s3
       /\ AfterDelete(r, out)
  /\ UNCHANGED <<now, posts, colaborations, nextPostId, nextColabId, snap>>

\* ------------------------------------------------------- publish and create

Publish(r, user, productId, commerceId, imageKey, price) ==
  /\ nextPostId + Cardinality(Creators) <= MaxPosts
  /\ nextColabId <= MaxColabs
  /\ Start(r, "findFirst",
           [Idle EXCEPT !.op = "publish", !.user = user, !.productId = productId,
                        !.commerceId = commerceId, !.imageKey = imageKey,
                        !.price = price, !.dayStart = StartOfDay(now)])

PublishFindFirst(r) ==
  /\ pc[r] = "findFirst"
  /\ LET found == FindFirst(posts, req[r].dayStart, req[r].productId,
                            req[r].commerceId, req[r].price)
     IN IF found = {}
          THEN /\ req' = req
               /\ Goto(r, "headObject")
          ELSE \E existentPost \in found :
                 /\ req' = [req EXCEPT ![r].existentPost = {existentPost}]
                 /\ IF IsOwnPost(existentPost, req[r].user)
                      THEN Finish(r, Void)
                      ELSE Goto(r, "colaboration.create")
  /\ UNCHANGED <<now, posts, colaborations, s3, nextPostId, nextColabId, snap>>

PublishColaborationCreate(r) ==
  /\ pc[r] = "colaboration.create"
  /\ nextColabId <= MaxColabs
  /\ \E existentPost \in req[r].existentPost :
       IF FindUnique(posts, existentPost.id) = {}
         THEN /\ Finish(r, Rejected("colaboration.create"))
              /\ UNCHANGED <<colaborations, nextColabId>>
         ELSE /\ colaborations' = colaborations \cup
                   {NewColaboration(nextColabId, existentPost.id, req[r].user)}
              /\ nextColabId' = nextColabId + 1
              /\ Finish(r, Returned("Colaboration", nextColabId))
  /\ UNCHANGED <<now, posts, s3, nextPostId, req, snap>>

Create(r, user, productId, commerceId, imageKey, price) ==
  /\ nextPostId + Cardinality(Creators) <= MaxPosts
  /\ Start(r, "headObject",
           [Idle EXCEPT !.op = "create", !.user = user, !.productId = productId,
                        !.commerceId = commerceId, !.imageKey = imageKey,
                        !.price = price])

PostCreate(r) ==
  /\ pc[r] = "post.create"
  /\ posts' = posts \cup
       {NewPost(PostDefaults(nextPostId, now),
                PostData(req[r].productId, req[r].commerceId,
                         PublicUrl(req[r].imageKey), req[r].price, req[r].user))}
  /\ nextPostId' = nextPostId + 1
  /\ Finish(r, Returned("Offer", nextPostId))
  /\ UNCHANGED <<now, colaborations, s3, nextColabId, req, snap>>

\* ------------------------------------------------------------ deleteOwnPost

DeleteOwnPost(r, user, id) ==
  Start(r, "findUnique", [Idle EXCEPT !.op = "deleteOwnPost", !.user = user, !.id = id])

DeleteFindUnique(r) ==
  /\ pc[r] = "findUnique"
  /\ LET post == FindUnique(posts, req[r].id)
     IN IF post = {}
          THEN Finish(r, NotFound) /\ req' = req
          ELSE \E p \in post :
                 /\ req' = [req EXCEPT ![r].existentPost = {p}]
                 /\ IF IsNotAuthor(p, req[r].user)
                      THEN Finish(r, Forbidden)
                      ELSE Goto(r, "post.delete")
  /\ UNCHANGED <<now, posts, colaborations, s3, nextPostId, nextColabId, snap>>

PostDelete(r) ==
  /\ pc[r] = "post.delete"
  /\ LET post == FindUnique(posts, req[r].id)
     IN IF post = {}
          THEN /\ Finish(r, Rejected("post.delete"))
               /\ UNCHANGED <<posts, colaborations>>
          ELSE /\ posts' = posts \ post
               /\ colaborations' = OnDeletePost(colaborations, req[r].id)
               /\ Finish(r, Returned("Deleted", req[r].id))
  /\ UNCHANGED <<now, s3, nextPostId, nextColabId, req, snap>>

\* the response reaches the client and the slot is free again
Reply(r) ==
  /\ pc[r] = "done"
  /\ pc' = [pc EXCEPT ![r] = "idle"]
  /\ req' = [req EXCEPT ![r] = Idle]
  /\ res' = [res EXCEPT ![r] = None]
  /\ snap' = NoSnap
  /\ UNCHANGED <<now, posts, colaborations, s3, nextPostId, nextColabId>>

\* ------------------------------------------------------- getDailyBestOffers

\* where: { publishDate: { gte: now } }
FeedWhere(table, dayStart) == {p \in table : p.publishDate >= dayStart}

\* faulty variant: publishDate ascending
OrderedBeforeOldestFirst(a, b) ==
  \/ a.price < b.price
  \/ a.price = b.price /\ a.publishDate < b.publishDate

\* orderBy: [{ price: "asc" }, { publishDate: "desc" }]: a comes strictly before b
OrderedBefore(a, b) ==
  \/ a.price < b.price
  \/ a.price = b.price /\ a.publishDate > b.publishDate

\* every order of the rows the orderBy allows (rows equal in both keys come in any order)
OrderBy(rows) ==
  LET n == Cardinality(rows)
  IN {s \in [1..n -> rows] :
        /\ \A i, j \in 1..n : i # j => s[i] # s[j]
        /\ \A i, j \in 1..n : i < j => ~OrderedBefore(s[j], s[i])}

\* distinct: "productId": of the ordered rows, the first of each productId
RECURSIVE Distinct(_, _)
Distinct(s, seen) ==
  IF s = <<>> THEN <<>>
  ELSE IF Head(s).productId \in seen THEN Distinct(Tail(s), seen)
  ELSE <<Head(s)>> \o Distinct(Tail(s), seen \cup {Head(s).productId})

\* select: the post's columns and _count.colaborations
FeedEntry(p, colabs) ==
  [post |-> p, count |-> Cardinality({c \in colabs : c.postId = p.id})]

GetDailyBestOffers(r, user) ==
  Start(r, "findMany",
        [Idle EXCEPT !.op = "getDailyBestOffers", !.user = user, !.dayStart = StartOfDay(now)])

FeedFindMany(r) ==
  /\ pc[r] = "findMany"
  /\ \E s \in OrderBy(FeedWhere(posts, req[r].dayStart)) :
       LET d == Distinct(s, {})
       IN Finish(r, Feed([i \in 1..Len(d) |-> FeedEntry(d[i], colaborations)]))
  /\ UNCHANGED <<now, posts, colaborations, s3, nextPostId, nextColabId, req, snap>>

\* ------------------------------------------------------------ specifications

\* validateS3image and the post.create that follows it
PromoteSteps(r) ==
  \/ HeadObject(r)
  \/ CopyObject(r)
  \/ DeleteObject(r)
  \/ PostCreate(r)

PublishSteps(r) ==
  \/ PublishFindFirst(r)
  \/ PublishColaborationCreate(r)

DeleteSteps(r) ==
  \/ DeleteFindUnique(r)
  \/ PostDelete(r)

Environment ==
  \/ Tick
  \/ \E k \in ImageKeys : Upload(k)
  \/ \E k \in ImageKeys : LifecycleExpire(k)

\* the clock runs on; uploads and expiries happen between two requests
EnvironmentBetween ==
  \/ Tick
  \/ \E k \in ImageKeys : AllIdle /\ Upload(k)
  \/ \E k \in ImageKeys : AllIdle /\ LifecycleExpire(k)

\* Each request runs alone: publish, create and deleteOwnPost by two users,
\* over two products, two commerces and two prices.
Next ==
  \/ EnvironmentBetween
  \/ \E u \in Users, p \in Products, c \in Commerces, k \in ImageKeys, price \in Prices :
        AllIdle /\ Publish("r1", u, p, c, k, price)
  \/ \E u \in Users, p \in Products, c \in Commerces, k \in ImageKeys, price \in Prices :
        AllIdle /\ Create("r1", u, p, c, k, price)
  \/ \E u \in Users, id \in 1..MaxPosts : AllIdle /\ DeleteOwnPost("r1", u, id)
  \/ PublishSteps("r1")
  \/ PromoteSteps("r1")
  \/ DeleteSteps("r1")
  \/ Reply("r1")

Spec == Init /\ [][Next]_vars

\* Each request runs alone: create and getDailyBestOffers, over two products
\* and two prices.
NextFeed ==
  \/ EnvironmentBetween
  \/ \E p \in Products, k \in ImageKeys, price \in Prices :
        AllIdle /\ Create("r1", "u1", p, "c1", k, price)
  \/ AllIdle /\ GetDailyBestOffers("r1", "u1")
  \/ PromoteSteps("r1")
  \/ FeedFindMany("r1")
  \/ Reply("r1")

SpecFeed == Init /\ [][NextFeed]_vars

\* Handlers of two requests interleaving between their awaits: publish (at two
\* prices), create and deleteOwnPost by two users for one product and commerce.
NextRace ==
  \/ Environment
  \/ \E r \in Req, u \in Users, k \in ImageKeys, price \in Prices :
        Publish(r, u, "p1", "c1", k, price)
  \/ \E r \in Req, u \in Users, k \in ImageKeys : Create(r, u, "p1", "c1", k, 1000)
  \/ \E r \in Req, u \in Users, id \in 1..MaxPosts : DeleteOwnPost(r, u, id)
  \/ \E r \in Req : PublishSteps(r)
  \/ \E r \in Req : PromoteSteps(r)
  \/ \E r \in Req : DeleteSteps(r)
  \/ \E r \in Req : Reply(r)

SpecRace == Init /\ [][NextRace]_vars

\* Handlers of two publish requests interleaving between their awaits, and
\* no other procedure: two users, one product and commerce, two prices.
NextPublishRace ==
  \/ Environment
  \/ \E r \in Req, u \in Users, k \in ImageKeys, price \in Prices :
        Publish(r, u, "p1", "c1", k, price)
  \/ \E r \in Req : PublishSteps(r)
  \/ \E r \in Req : PromoteSteps(r)
  \/ \E r \in Req : Reply(r)

SpecPublishRace == Init /\ [][NextPublishRace]_vars

\* ------------------------------------------------------------------ claims

\* the start of the calendar day that tick t lies in
DayStartAt(t) == t - (t % DayLen)

\* request r has returned or thrown after running alone since snap was taken
Ran(r, ops) == pc[r] = "done" /\ req[r].op \in ops /\ snap.valid

\* p is an Offer of r's product, commerce and price, published on or after dayStart
SameOfferSince(p, r, dayStart) ==
  /\ p.productId = req[r].productId
  /\ p.commerceId = req[r].commerceId
  /\ p.price = req[r].price
  /\ p.publishDate >= dayStart

\* the Offers that were duplicates of r's input when r started
Duplicates(r) == {p \in snap.posts : SameOfferSince(p, r, DayStartAt(snap.now))}

\* the bucket answered one of r's commands with a failure
StorageFault(r) ==
  \/ req[r].head = "rejected"
  \/ req[r].copyOutput \in {"unconfirmed", "rejected"}
  \/ req[r].del = "rejected"

\* C1: whatever publish requests ran, interleaved or not, the store holds at
\* most one Offer per (productId, commerceId, price, day).
C1_AtMostOneOfferPerDay ==
  \A p, q \in posts :
    ( /\ p.productId = q.productId
      /\ p.commerceId = q.commerceId
      /\ p.price = q.price
      /\ DayStartAt(p.publishDate) = DayStartAt(q.publishDate) ) => p = q

\* C2: a publish that runs alone, finds its temporary object and no Offer of the
\* same product, commerce and exact price since the start of the day, and meets
\* no storage failure, creates exactly one Offer, authored by the requester, with
\* image = base URL + "/" + imageKey, and no Collaboration; afterwards the
\* temporary object is gone and the object at imageKey exists.
C2_PublishCreatesOneOffer ==
  \A r \in Req :
    ( /\ Ran(r, {"publish"})
      /\ (IMAGE_PREFIX \o req[r].imageKey) \in snap.s3
      /\ Duplicates(r) = {}
      /\ ~StorageFault(r) )
    => /\ res[r].kind = "Offer"
       /\ colaborations = snap.colaborations
       /\ \E o \in posts \ snap.posts :
            /\ posts = snap.posts \cup {o}
            /\ o.id = res[r].id
            /\ o.authorId = req[r].user
            /\ o.productId = req[r].productId
            /\ o.commerceId = req[r].commerceId
            /\ o.price = req[r].price
            /\ o.image = S3_BUCKET_URL \o "/" \o req[r].imageKey
       /\ (IMAGE_PREFIX \o req[r].imageKey) \notin s3
       /\ req[r].imageKey \in s3

\* a publish created an Offer although the same product and commerce already
\* had an Offer of the day at another price
C2_Witness ==
  \E r \in Req :
    /\ Ran(r, {"publish"})
    /\ res[r].kind = "Offer"
    /\ \E p \in snap.posts :
         /\ p.productId = req[r].productId
         /\ p.commerceId = req[r].commerceId
         /\ p.publishDate >= DayStartAt(snap.now)
         /\ p.price # req[r].price

\* C3: a publish that finds an Offer of the day with its product, commerce and
\* price whose author is the requester returns nothing and leaves the Offers,
\* the Collaborations and every storage object as they were.
C3_OwnRepublishChangesNothing ==
  \A r \in Req :
    Ran(r, {"publish"}) =>
      /\ ( Duplicates(r) # {} /\ (\A p \in Duplicates(r) : p.authorId = req[r].user) )
           => res[r].kind = "void"
      /\ \A e \in req[r].existentPost :
           (e \in Duplicates(r) /\ e.authorId = req[r].user)
           => /\ res[r].kind = "void"
              /\ posts = snap.posts
              /\ colaborations = snap.colaborations
              /\ s3 = snap.s3

\* the author republished: nothing was returned and the uploaded temporary
\* image is still in the bucket
C3_Witness ==
  \E r \in Req :
    /\ Ran(r, {"publish"})
    /\ res[r].kind = "void"
    /\ \E e \in req[r].existentPost : e.authorId = req[r].user
    /\ (IMAGE_PREFIX \o req[r].imageKey) \in s3

\* C4: a publish that finds an Offer of the day with its product, commerce and
\* price whose author is another user creates exactly one Collaboration, linking
\* the requester to that Offer's id, creates no Offer and sends no storage
\* command.
C4_OtherAuthorGetsCollaboration ==
  \A r \in Req :
    Ran(r, {"publish"}) =>
      /\ ( Duplicates(r) # {} /\ (\A p \in Duplicates(r) : p.authorId # req[r].user) )
           => res[r].kind = "Colaboration"
      /\ \A e \in req[r].existentPost :
           (e \in Duplicates(r) /\ e.authorId # req[r].user)
           => /\ res[r].kind = "Colaboration"
              /\ \E c \in colaborations \ snap.colaborations :
                   /\ colaborations = snap.colaborations \cup {c}
                   /\ c.id = res[r].id
                   /\ c.postId = e.id
                   /\ c.userId = req[r].user
              /\ posts = snap.posts
              /\ s3 = snap.s3
              /\ req[r].head = "none"
              /\ req[r].copyOutput = "none"
              /\ req[r].del = "none"

\* another user's publish was answered with a Collaboration while its
\* temporary image stayed in the bucket
C4_Witness ==
  \E r \in Req :
    /\ Ran(r, {"publish"})
    /\ res[r].kind = "Colaboration"
    /\ \E e \in req[r].existentPost : e.authorId # req[r].user
    /\ (IMAGE_PREFIX \o req[r].imageKey) \in s3

\* C5: when the temporary object is absent, or the existence check fails, a
\* create, or a publish without a duplicate, fails with BAD_REQUEST /
\* IMAGE_KEY_NOT_FOUND; no copy and no delete is sent, the bucket and the tables
\* are unchanged, no Offer is created.
C5_MissingImageIsBadRequest ==
  \A r \in Req :
    ( /\ Ran(r, {"publish", "create"})
      /\ (req[r].op = "create" \/ Duplicates(r) = {})
      /\ ((IMAGE_PREFIX \o req[r].imageKey) \notin snap.s3 \/ req[r].head = "rejected") )
    => /\ res[r].kind = "error"
       /\ res[r].code = "BAD_REQUEST"
       /\ res[r].message = "IMAGE_KEY_NOT_FOUND"
       /\ req[r].copyOutput = "none"
       /\ req[r].del = "none"
       /\ s3 = snap.s3
       /\ posts = snap.posts
       /\ colaborations = snap.colaborations

\* a request named an image that was never uploaded
C5_Witness ==
  \E r \in Req :
    /\ Ran(r, {"publish", "create"})
    /\ (IMAGE_PREFIX \o req[r].imageKey) \notin snap.s3
    /\ res[r].code = "BAD_REQUEST"

\* C6: deleteOwnPost(id) by u fails with NOT_FOUND when no Offer has the id and
\* with FORBIDDEN when the Offer's author is not u, leaving the Offers as they
\* were; otherwise it removes exactly that Offer.  An Offer that leaves the
\* store leaves it in a deleteOwnPost of its own author.
C6_DeleteOnlyByAuthor ==
  /\ \A r \in Req :
       Ran(r, {"deleteOwnPost"}) =>
         /\ (\A p \in snap.posts : p.id # req[r].id)
              => /\ res[r].kind = "error"
                 /\ res[r].code = "NOT_FOUND"
                 /\ posts = snap.posts
         /\ \A p \in snap.posts :
              p.id = req[r].id =>
                IF p.authorId # req[r].user
                  THEN /\ res[r].kind = "error"
                       /\ res[r].code = "FORBIDDEN"
                       /\ posts = snap.posts
                  ELSE /\ res[r].kind = "Deleted"
                       /\ posts = snap.posts \ {p}
  /\ snap.valid =>
       \A p \in snap.posts \ posts :
         \E r \in Req :
           /\ req[r].op = "deleteOwnPost"
           /\ req[r].user = p.authorId
           /\ req[r].id = p.id

\* a user asked to delete another user's Offer
C6_Witness ==
  \E r \in Req :
    /\ Ran(r, {"deleteOwnPost"})
    /\ res[r].code = "FORBIDDEN"
    /\ \E p \in posts : p.id = req[r].id /\ p.authorId # req[r].user

\* C7: getDailyBestOffers returns one entry for each product that has an Offer
\* published since the start of the day and none for any other; the entry is
\* the product's cheapest Offer of the day, the latest published among the
\* cheapest; the entries are in order of price ascending, then publishDate
\* descending.
C7_DailyBestOffers ==
  \A r \in Req :
    Ran(r, {"getDailyBestOffers"}) =>
      LET list == res[r].list
          today == {p \in posts : p.publishDate >= DayStartAt(snap.now)}
      IN /\ res[r].kind = "feed"
         /\ \A p \in today :
              Cardinality({i \in 1..Len(list) : list[i].post.productId = p.productId}) = 1
         /\ \A i \in 1..Len(list) :
              /\ list[i].post \in today
              /\ \A q \in today :
                   q.productId = list[i].post.productId =>
                     /\ list[i].post.price <= q.price
                     /\ q.price = list[i].post.price
                          => q.publishDate <= list[i].post.publishDate
         /\ \A i, j \in 1..Len(list) :
              i < j =>
                \/ list[i].post.price < list[j].post.price
                \/ /\ list[i].post.price = list[j].post.price
                   /\ list[i].post.publishDate >= list[j].post.publishDate

\* the feed was asked for while a product had two Offers of the day at its
\* lowest price, published at different times
C7_Witness ==
  \E r \in Req :
    /\ Ran(r, {"getDailyBestOffers"})
    /\ \E p, q \in posts :
         /\ p.productId = q.productId
         /\ p.price = q.price
         /\ p.publishDate < q.publishDate
         /\ p.publishDate >= DayStartAt(snap.now)
         /\ \E i \in 1..Len(res[r].list) : res[r].list[i].post = q

\* what C8 asks of one step: every
\* Collaboration links a user to an Offer of the store whose author is another
\* user, and a Collaboration appears only in a publish of that user that finds
\* the Offer in the store with the request's product, commerce and price and a
\* publishDate on or after the start of the request's day.
C8_CollaborationStep ==
  /\ \A c \in colaborations' :
       \E p \in posts' : p.id = c.postId /\ p.authorId # c.userId
  /\ \A c \in colaborations' \ colaborations :
       \E r \in Req :
         /\ req[r].op = "publish"
         /\ pc[r] # "done"
         /\ pc'[r] = "done"
         /\ res'[r].kind = "Colaboration"
         /\ res'[r].id = c.id
         /\ c.userId = req[r].user
         /\ req[r].dayStart = DayStartAt(req[r].dayStart)
         /\ req[r].dayStart <= now
         /\ \E p \in posts :
              /\ p.id = c.postId
              /\ p.authorId # req[r].user
              /\ SameOfferSince(p, r, req[r].dayStart)

\* C8: every step of every interleaving of publish, create and deleteOwnPost
\* leaves each Collaboration linked to an Offer of the store written by another
\* user, and adds a Collaboration only in a publish that found such an Offer
\* with its product, commerce, price and day.
C8_CollaborationsLinkOtherAuthors == [][C8_CollaborationStep]_vars

\* an Offer has a Collaboration while its author's deleteOwnPost of it is
\* between findUnique and post.delete
C8_Witness ==
  \E c \in colaborations :
    \E r \in Req : pc[r] = "post.delete" /\ req[r].id = c.postId

\* C9 as stated: once the copy is confirmed the publish or create goes on to
\* create the Offer, whether or not the delete of the temporary object succeeds.
C9_DeleteFailureNotSurfaced ==
  \A r \in Req :
    ( /\ pc[r] = "done"
      /\ req[r].op \in {"publish", "create"}
      /\ req[r].copyOutput = "confirmed" )
    => res[r].kind = "Offer"

\* C9 amended: once the copy is confirmed, the publish or create creates the
\* Offer, with the public URL as its image, exactly when the delete of the
\* temporary object succeeds; a rejected delete is thrown on to the caller: the
\* request fails, no Offer is created, and the copy at imageKey stays.
C9_DeleteFailurePropagates ==
  \A r \in Req :
    ( Ran(r, {"publish", "create"}) /\ req[r].copyOutput = "confirmed" )
    => IF req[r].del = "rejected"
         THEN /\ res[r].kind = "error"
              /\ res[r].code = "DeleteObject"
              /\ posts = snap.posts
              /\ req[r].imageKey \in s3
         ELSE /\ req[r].del = "ok"
              /\ res[r].kind = "Offer"
              /\ \E o \in posts \ snap.posts :
                   /\ o.id = res[r].id
                   /\ o.image = S3_BUCKET_URL \o "/" \o req[r].imageKey

\* the copy was confirmed and the delete of the temporary object was rejected
C9_Witness ==
  \E r \in Req :
    /\ Ran(r, {"publish", "create"})
    /\ req[r].copyOutput = "confirmed"
    /\ req[r].del = "rejected"

\* C10: when the temporary object exists and the copy returns no
\* CopyObjectResult, the publish or create fails with INTERNAL_SERVER_ERROR /
\* IMAGE_VALIDATION_ERROR, no delete is sent, the temporary object is still
\* there, and no Offer is created.
C10_UnconfirmedCopyFails ==
  \A r \in Req :
    ( Ran(r, {"publish", "create"}) /\ req[r].copyOutput = "unconfirmed" )
    => /\ (IMAGE_PREFIX \o req[r].imageKey) \in snap.s3
       /\ res[r].kind = "error"
       /\ res[r].code = "INTERNAL_SERVER_ERROR"
       /\ res[r].message = "IMAGE_VALIDATION_ERROR"
       /\ req[r].del = "none"
       /\ (IMAGE_PREFIX \o req[r].imageKey) \in s3
       /\ posts = snap.posts
       /\ colaborations = snap.colaborations

\* a create whose copy came back without a CopyObjectResult
C10_Witness ==
  \E r \in Req :
    /\ Ran(r, {"create"})
    /\ req[r].copyOutput = "unconfirmed"
    /\ res[r].kind = "error"

====
